---- MODULE Spec2Model ----
(***************************************************************************)
(* Hospital-Report-Generator, src/server.js: the two HTTP handlers         *)
(* POST /api/upload and POST /api/simplify, the helper callLLMSimplify, the *)
(* external calls they await (the chat-completion service, pdf-parse) and   *)
(* the promise jobs that resume them.                                       *)
(*                                                                         *)
(* src/server.js holds two copies of the server.  Lines 1-165 are the      *)
(* earlier variant (strict-JSON reply, parsed with a regex fallback), lines *)
(* 167-355 the current one (plain-text reply, static keywords, failures     *)
(* caught inside callLLMSimplify).  The variable `variant` says which copy  *)
(* the process runs; the upload handler and the body of the simplify        *)
(* handler are the same text in both.                                       *)
(*                                                                         *)
(* A JavaScript string is a sequence of UTF-16 code units, each written as  *)
(* a one-character string, or as "U+XXXX" when TLA+ cannot write it.  Any   *)
(* other JavaScript value is a tuple that starts with its type.             *)
(***************************************************************************)
EXTENDS Integers, Sequences, FiniteSets, TLC

VARIABLES
  variant,  \* which copy of the server runs: "earlier" or "current"
  pc,       \* pc[r]: where request r's handler stands
  req,      \* req[r]: the request as received (route, body or file)
  frame,    \* frame[r]: the suspended callLLMSimplify frame, if any, with its locals
  calls,    \* calls[r]: the external calls the handler has made, in order
  settled,  \* settled[r]: how the awaited external call settled
  returned, \* returned[r]: how r's callLLMSimplify completed, once it has
  jobs,     \* the promise job queue: the requests whose continuation waits, oldest first
  res       \* res[r]: the responses sent on r's connection, in order

vars == <<variant, pc, req, frame, calls, settled, returned, jobs, res>>

(***************************** bounds **************************************)
\* Requests the server handles concurrently.
NumRequests == 2
\* Characters by which the longest report exceeds MAX_INPUT_CHARS.
MaxOver == 1

Requests == 1..NumRequests
Variants == {"earlier", "current"}

(************************ UTF-16 code units ********************************)
\* U+0020 .. U+007E; the grave accent, which a TLA+ string cannot hold, by name
Ascii ==
  <<" ", "!", "\"", "#", "$", "%", "&", "'", "(", ")", "*", "+", ",", "-", ".", "/",
    "0", "1", "2", "3", "4", "5", "6", "7", "8", "9", ":", ";", "<", "=", ">", "?",
    "@", "A", "B", "C", "D", "E", "F", "G", "H", "I", "J", "K", "L", "M", "N", "O",
    "P", "Q", "R", "S", "T", "U", "V", "W", "X", "Y", "Z", "[", "\\", "]", "^", "_",
    "U+0060", "a", "b", "c", "d", "e", "f", "g", "h", "i", "j", "k", "l", "m", "n", "o",
    "p", "q", "r", "s", "t", "u", "v", "w", "x", "y", "z", "{", "|", "}", "~">>

HexDigits ==
  <<"0", "1", "2", "3", "4", "5", "6", "7", "8", "9", "A", "B", "C", "D", "E", "F">>

HexDigit(d) == HexDigits[d + 1]

\* the code unit n, 0 <= n <= 65535
Chr(n) ==
  CASE n >= 32 /\ n <= 126 -> Ascii[n - 31]
    [] n = 9 -> "\t"
    [] n = 10 -> "\n"
    [] n = 12 -> "\f"
    [] n = 13 -> "\r"
    [] OTHER -> "U+" \o HexDigit(n \div 4096) \o HexDigit((n \div 256) % 16)
                     \o HexDigit((n \div 16) % 16) \o HexDigit(n % 16)

\* the number of the code unit c
CodeUnit(c) ==
  CASE c = "\t" -> 9
    [] c = "\n" -> 10
    [] c = "\f" -> 12
    [] c = "\r" -> 13
    [] Len(c) = 1 -> 31 + (CHOOSE i \in 1..Len(Ascii) : Ascii[i] = c)
    [] OTHER -> CHOOSE n \in 0..65535 : Chr(n) = c

(************************ JavaScript values ********************************)
\* x[1] is the type of the value x, x[2] what it holds
Undefined == <<"undefined">>
Null == <<"null">>
Bool(b) == <<"boolean", b>>
Str(s) == <<"string", s>>
\* an integer of at most nine digits
Num(n) == <<"number", n>>
\* any other finite number: sign * (the decimal digits `digits`) * 10^exp,
\* where `digits` neither starts nor ends with 0
Dec(sign, digits, exp) == <<"number", sign, digits, exp>>
\* Infinity and -Infinity
Infinity(sign) == <<"number", sign, "Infinity">>
Arr(a) == <<"array", a>>
\* an object: its own properties, from property name to value
Obj(f) == <<"object", f>>
\* {} : an object with no own property
EmptyObject == Obj([k \in {} |-> Undefined])

\* ToBoolean, as `!x`, `x || y`, `x && y` and `x ? :` apply it
Truthy(x) ==
  CASE x[1] = "undefined" -> FALSE
    [] x[1] = "null" -> FALSE
    [] x[1] = "boolean" -> x[2]
    [] x[1] = "string" -> Len(x[2]) > 0
    [] x[1] = "number" -> Len(x) > 2 \/ x[2] # 0
    [] x[1] = "array" -> TRUE
    [] x[1] = "object" -> TRUE

\* x || y
Or(x, y) == IF Truthy(x) THEN x ELSE y

\* x.k for an x that is neither undefined nor null (those throw a TypeError)
\* and a k among the names the server reads: an own property of an object,
\* the length of a string or of an array, else undefined
Get(x, k) ==
  CASE x[1] = "object" -> IF k \in DOMAIN x[2] THEN x[2][k] ELSE Undefined
    [] x[1] \in {"string", "array"} -> IF k = "length" THEN Num(Len(x[2])) ELSE Undefined
    [] OTHER -> Undefined

\* x?.k
OptGet(x, k) == IF x[1] \in {"undefined", "null"} THEN Undefined ELSE Get(x, k)

\* x?.[0]
OptFirst(x) ==
  CASE x[1] = "array" -> IF Len(x[2]) > 0 THEN x[2][1] ELSE Undefined
    [] x[1] = "string" -> IF Len(x[2]) > 0 THEN Str(<<x[2][1]>>) ELSE Undefined
    [] x[1] = "object" -> Get(x, "0")
    [] OTHER -> Undefined

\* a destructuring default: `{ k = d } = obj`
Default(x, d) == IF x[1] = "undefined" THEN d ELSE x

S_undefined ==
  <<"u","n","d","e","f","i","n","e","d">>
S_null ==
  <<"n","u","l","l">>
S_true ==
  <<"t","r","u","e">>
S_false ==
  <<"f","a","l","s","e">>
S_Infinity ==
  <<"I","n","f","i","n","i","t","y">>
S_object_Object ==
  <<"[","o","b","j","e","c","t"," ","O","b","j","e","c","t","]">>
S_en ==
  <<"e","n">>
S_friendly ==
  <<"f","r","i","e","n","d","l","y">>

Digit(d) == HexDigits[d + 1]

RECURSIVE Digits(_)
Digits(n) == IF n < 10 THEN <<Digit(n)>> ELSE Digits(n \div 10) \o <<Digit(n % 10)>>

Zeros(n) == [i \in 1..n |-> "0"]

\* Number::toString of sign * digits * 10^exp
DecString(sign, digits, exp) ==
  LET k == Len(digits)
      n == k + exp
      ds == [i \in 1..k |-> Digit(digits[i])]
      e == n - 1
      body ==
        IF k <= n /\ n <= 21 THEN ds \o Zeros(n - k)
        ELSE IF 0 < n /\ n <= 21 THEN SubSeq(ds, 1, n) \o <<".">> \o SubSeq(ds, n + 1, k)
        ELSE IF -6 < n /\ n <= 0 THEN <<"0", ".">> \o Zeros(-n) \o ds
        ELSE <<ds[1]>> \o (IF k > 1 THEN <<".">> \o SubSeq(ds, 2, k) ELSE <<>>)
               \o <<"e", IF e < 0 THEN "-" ELSE "+">> \o Digits(IF e < 0 THEN -e ELSE e)
  IN (IF sign < 0 THEN <<"-">> ELSE <<>>) \o body

NumberString(x) ==
  IF Len(x) = 2 THEN (IF x[2] < 0 THEN <<"-">> \o Digits(-x[2]) ELSE Digits(x[2]))
  ELSE IF Len(x) = 3 THEN (IF x[2] < 0 THEN <<"-">> ELSE <<>>) \o S_Infinity
  ELSE DecString(x[2], x[3], x[4])

\* what String(x) gives in place of a string when the conversion throws
TypeError == <<"TypeError">>

RECURSIVE String(_), joinValues(_)

\* Array.prototype.join: undefined and null elements give the empty string,
\* and the TypeError of an element is that of the join
joinValues(a) ==
  LET piece(x) == IF x[1] \in {"undefined", "null"} THEN <<>> ELSE String(x)
      rest == joinValues(Tail(a))
  IN IF Len(a) = 0 THEN <<>>
     ELSE IF piece(a[1]) = TypeError THEN TypeError
     ELSE IF Len(a) = 1 THEN piece(a[1])
     ELSE IF rest = TypeError THEN TypeError
     ELSE piece(a[1]) \o <<",">> \o rest

\* String(x), also what a template literal `${x}` inserts and what
\* encodeURIComponent(x) and JSON.parse(x) read.  An object is converted by
\* its toString method: the inherited one gives "[object Object]"; an own
\* property toString of a value that came out of JSON is no function, and
\* valueOf, own or inherited, gives no primitive then, so the conversion
\* throws a TypeError.
String(x) ==
  CASE x[1] = "string" -> x[2]
    [] x[1] = "number" -> NumberString(x)
    [] x[1] = "boolean" -> IF x[2] THEN S_true ELSE S_false
    [] x[1] = "undefined" -> S_undefined
    [] x[1] = "null" -> S_null
    [] x[1] = "array" -> joinValues(x[2])
    [] x[1] = "object" -> IF "toString" \in DOMAIN x[2] THEN TypeError ELSE S_object_Object

(**************************** strings **************************************)
\* WhiteSpace and LineTerminator of ECMAScript, which trim() strips:
\* U+0009-U+000D, U+0020, U+00A0, U+1680, U+2000-U+200A, U+2028, U+2029,
\* U+202F, U+205F, U+3000, U+FEFF
WhiteSpace ==
  {Chr(n) : n \in (9..13) \cup {32, 160, 5760} \cup (8192..8202)
                  \cup {8232, 8233, 8239, 8287, 12288, 65279}}

RECURSIVE SkipLeft(_, _)
SkipLeft(s, i) ==
  IF i <= Len(s) /\ s[i] \in WhiteSpace THEN SkipLeft(s, i + 1) ELSE i

RECURSIVE SkipRight(_, _)
SkipRight(s, j) ==
  IF j >= 1 /\ s[j] \in WhiteSpace THEN SkipRight(s, j - 1) ELSE j

\* s.trim()
trim(s) == SubSeq(s, SkipLeft(s, 1), SkipRight(s, Len(s)))

\* s.slice(0, n) and a.slice(0, n)
slice(s, n) == SubSeq(s, 1, IF n < Len(s) THEN n ELSE Len(s))

\* s.endsWith(suffix)
endsWith(s, suffix) ==
  /\ Len(suffix) <= Len(s)
  /\ SubSeq(s, Len(s) - Len(suffix) + 1, Len(s)) = suffix

\* s.split(sep) for a one-character sep: the pieces between the separators
RECURSIVE SplitFrom(_, _, _, _)
SplitFrom(s, sep, start, i) ==
  IF i > Len(s) THEN <<SubSeq(s, start, Len(s))>>
  ELSE IF s[i] = sep
    THEN <<SubSeq(s, start, i - 1)>> \o SplitFrom(s, sep, i + 1, i + 1)
    ELSE SplitFrom(s, sep, start, i + 1)

split(s, sep) == SplitFrom(s, sep, 1, 1)

\* parts.join(sep)
RECURSIVE join(_, _)
join(parts, sep) ==
  IF Len(parts) = 0 THEN <<>>
  ELSE IF Len(parts) = 1 THEN parts[1]
  ELSE parts[1] \o sep \o join(Tail(parts), sep)

\* s.replace(/\r\n/g, '\n')
RECURSIVE replaceCRLF(_)
replaceCRLF(s) ==
  IF Len(s) = 0 THEN <<>>
  ELSE IF Len(s) >= 2 /\ s[1] = "\r" /\ s[2] = "\n"
    THEN <<"\n">> \o replaceCRLF(SubSeq(s, 3, Len(s)))
    ELSE <<s[1]>> \o replaceCRLF(Tail(s))

\* The characters encodeURIComponent leaves alone: A-Z a-z 0-9 - _ . ! ~ * ' ( )
Unreserved ==
  {
    "a", "b", "c", "d", "e", "f", "g", "h", "i", "j", "k", "l", "m",
    "n", "o", "p", "q", "r", "s", "t", "u", "v", "w", "x", "y", "z",
    "A", "B", "C", "D", "E", "F", "G", "H", "I", "J", "K", "L", "M",
    "N", "O", "P", "Q", "R", "S", "T", "U", "V", "W", "X", "Y", "Z",
    "0", "1", "2", "3", "4", "5", "6", "7", "8", "9", "-", "_", ".",
    "!", "~", "*", "'", "(", ")" }

\* %XX of one byte
PercentByte(b) == <<"%", HexDigit(b \div 16), HexDigit(b % 16)>>

\* The UTF-8 form of the code point cp, each byte written %XX.
Escaped(cp) ==
  IF cp < 128 THEN PercentByte(cp)
  ELSE IF cp < 2048
    THEN PercentByte(192 + (cp \div 64)) \o PercentByte(128 + (cp % 64))
  ELSE IF cp < 65536
    THEN PercentByte(224 + (cp \div 4096)) \o PercentByte(128 + ((cp \div 64) % 64))
           \o PercentByte(128 + (cp % 64))
  ELSE PercentByte(240 + (cp \div 262144)) \o PercentByte(128 + ((cp \div 4096) % 64))
         \o PercentByte(128 + ((cp \div 64) % 64)) \o PercentByte(128 + (cp % 64))

URIError == <<"URIError">>

\* encodeURIComponent(s): a surrogate pair is one code point, and a
\* surrogate without its partner is a URIError
RECURSIVE Encode(_, _, _)
Encode(s, i, acc) ==
  IF i > Len(s) THEN acc
  ELSE IF s[i] \in Unreserved THEN Encode(s, i + 1, acc \o <<s[i]>>)
  ELSE LET u == CodeUnit(s[i])
       IN IF u < 55296 \/ u > 57343 THEN Encode(s, i + 1, acc \o Escaped(u))
          ELSE IF u >= 56320 \/ i = Len(s) THEN URIError
          ELSE LET w == CodeUnit(s[i + 1])
               IN IF w < 56320 \/ w > 57343 THEN URIError
                  ELSE Encode(s, i + 2,
                         acc \o Escaped(65536 + (u - 55296) * 1024 + (w - 56320)))

encodeURIComponent(s) == Encode(s, 1, <<>>)

(*********************** literals of src/server.js *************************)
MAX_INPUT_CHARS == 8000

TRUNCATED ==
  <<"\n","\n","[","T","R","U","N","C","A","T","E","D","]">>
DEGRADED_MESSAGE ==
  <<"U","n","a","b","l","e"," ","t","o"," ","s","i","m","p","l","i","f","y"," ","a","t"," ","t","h","e"," ","m","o","m","e","n","t","."," ","P","l","e","a","s","e"," ","t","r","y"," ","a","g","a","i","n"," ","l","a","t","e","r",".">>
IMAGE_HINT_PREFIX ==
  <<"h","t","t","p","s",":","/","/","s","o","u","r","c","e",".","u","n","s","p","l","a","s","h",".","c","o","m","/","f","e","a","t","u","r","e","d","/","?">>
K_healthy ==
  <<"h","e","a","l","t","h","y">>
K_blood ==
  <<"b","l","o","o","d">>
K_heart ==
  <<"h","e","a","r","t">>
K_fitness ==
  <<"f","i","t","n","e","s","s">>
K_doctor_patient ==
  <<"d","o","c","t","o","r","-","p","a","t","i","e","n","t">>
HINT_doctor_patient ==
  <<"h","t","t","p","s",":","/","/","s","o","u","r","c","e",".","u","n","s","p","l","a","s","h",".","c","o","m","/","f","e","a","t","u","r","e","d","/","?","d","o","c","t","o","r",",","p","a","t","i","e","n","t">>
HINT_heart ==
  <<"h","t","t","p","s",":","/","/","s","o","u","r","c","e",".","u","n","s","p","l","a","s","h",".","c","o","m","/","f","e","a","t","u","r","e","d","/","?","h","e","a","r","t">>
USER_HEAD ==
  <<"\n","S","i","m","p","l","i","f","y"," ","a","n","d"," ","e","x","p","l","a","i","n"," ","t","h","i","s"," ","m","e","d","i","c","a","l"," ","r","e","p","o","r","t"," ","f","o","r"," ","a"," ","n","o","n","-","m","e","d","i","c","a","l"," ","p","e","r","s","o","n",".","\n","M","a","k","e"," ","i","t"," ","w","a","r","m",","," ","e","n","c","o","u","r","a","g","i","n","g",","," ","a","n","d"," ","c","o","n","v","e","r","s","a","t","i","o","n","a","l",".","\n","\n","R","e","p","o","r","t"," ","t","e","x","t",":","\n","\"","\"","\"">>
USER_HEAD_EARLIER ==
  <<"I","n","p","u","t"," ","r","e","p","o","r","t",":","\n","\"","\"","\"">>
USER_LANG ==
  <<"\"","\"","\"","\n","T","a","r","g","e","t"," ","l","a","n","g","u","a","g","e",":"," ">>
USER_TONE ==
  <<"\n","T","o","n","e",":"," ">>
USER_TAIL ==
  <<"\n","R","e","t","u","r","n"," ","p","l","a","i","n"," ","t","e","x","t"," ","o","n","l","y"," ","w","i","t","h"," ","e","m","o","j","i","s"," ","a","n","d"," ","f","o","r","m","a","t","t","i","n","g",".","\n">>
USER_TAIL_EARLIER ==
  <<"\n","R","e","t","u","r","n"," ","J","S","O","N"," ","o","n","l","y"," ","(","n","o"," ","e","x","t","r","a"," ","c","o","m","m","e","n","t","a","r","y",")",".">>
S_txt ==
  <<".","t","x","t">>
S_pdf ==
  <<".","p","d","f">>
M_text_plain ==
  <<"t","e","x","t","/","p","l","a","i","n">>
M_application_pdf ==
  <<"a","p","p","l","i","c","a","t","i","o","n","/","p","d","f">>

\* The fixed system instruction.  Nothing in the server reads inside it, so
\* it is kept as one token per variant.
system(v) ==
  IF v = "current"
  THEN <<"[system: friendly health explainer; nine fixed sections; plain text]">>
  ELSE <<"[system: medical-language simplifier; JSON with simplified, visual_keywords, short_summary]">>

\* const user = `...${text}...${targetLang}...${tone}...`, a TypeError when
\* the conversion of targetLang or of tone throws
user(v, text, targetLang, tone) ==
  IF String(targetLang) = TypeError \/ String(tone) = TypeError THEN TypeError
  ELSE IF v = "current"
  THEN USER_HEAD \o text \o USER_LANG \o String(targetLang)
         \o USER_TONE \o String(tone) \o USER_TAIL
  ELSE USER_HEAD_EARLIER \o text \o USER_LANG \o String(targetLang)
         \o USER_TONE \o String(tone) \o USER_TAIL_EARLIER

\* if (text.length > MAX_INPUT_CHARS) text = text.slice(0, MAX_INPUT_CHARS) + "\n\n[TRUNCATED]"
truncated(text) ==
  IF Len(text) > MAX_INPUT_CHARS
  THEN slice(text, MAX_INPUT_CHARS) \o TRUNCATED
  ELSE text

\* The argument of openai.chat.completions.create, for a `user` that was
\* built.  `user` is built from `text` as callLLMSimplify received it: the
\* truncation reassigns `text` only afterwards, and `messages` holds the
\* `user` already built.  The model is the one chosen while OPENAI_MODEL is
\* not set.
createArgs(v, text, targetLang, tone) ==
  [model |-> "gpt-4o-mini",
   messages |-> << [role |-> "system", content |-> system(v)],
                   [role |-> "user", content |-> user(v, text, targetLang, tone)] >>,
   temperature |-> IF v = "current" THEN "0.6" ELSE "0.2",
   max_tokens |-> IF v = "current" THEN 1000 ELSE 800]

\* The locals of callLLMSimplify that are live while it awaits the service.
suspendedFrame(text) == [text |-> truncated(text)]

(******************** how an awaited call settles **************************)
Resolved(x) == [kind |-> "resolved", value |-> x]
Rejected == [kind |-> "rejected", value |-> Undefined]

Return(x) == [kind |-> "return", value |-> x]
Throw == [kind |-> "throw", value |-> Undefined]

(***************************** JSON.parse **********************************)
SyntaxError == <<"SyntaxError">>

\* the result of parsing one construct: the value and the index after it
Parsed(v, i) == [ok |-> TRUE, value |-> v, next |-> i]
Fail == [ok |-> FALSE]

\* JSON white space: space, tab, line feed, carriage return
JSONWhiteSpace == {" ", "\t", "\n", "\r"}

RECURSIVE SkipWhiteSpace(_, _)
SkipWhiteSpace(s, i) ==
  IF i <= Len(s) /\ s[i] \in JSONWhiteSpace THEN SkipWhiteSpace(s, i + 1) ELSE i

DecimalDigits == {"0", "1", "2", "3", "4", "5", "6", "7", "8", "9"}

DigitValue(c) == CHOOSE d \in 0..9 : Digit(d) = c

\* the index after the run of digits that starts at i
RECURSIVE DigitsEnd(_, _)
DigitsEnd(s, i) ==
  IF i <= Len(s) /\ s[i] \in DecimalDigits THEN DigitsEnd(s, i + 1) ELSE i

\* the index of the first digit of ds from i on that is not 0, else Len(ds) + 1
RECURSIVE FirstNonZero(_, _)
FirstNonZero(ds, i) ==
  IF i <= Len(ds) /\ ds[i] = 0 THEN FirstNonZero(ds, i + 1) ELSE i

DropLeadingZeros(ds) == SubSeq(ds, FirstNonZero(ds, 1), Len(ds))

\* the number of zeros that end the first i digits of ds
RECURSIVE ZerosBefore(_, _)
ZerosBefore(ds, i) ==
  IF i > 0 /\ ds[i] = 0 THEN 1 + ZerosBefore(ds, i - 1) ELSE 0

TrailingZeros(ds) == ZerosBefore(ds, Len(ds))

RECURSIVE IntegerOf(_)
IntegerOf(ds) ==
  IF Len(ds) = 0 THEN 0 ELSE 10 * IntegerOf(SubSeq(ds, 1, Len(ds) - 1)) + ds[Len(ds)]

RECURSIVE Power10(_)
Power10(n) == IF n = 0 THEN 1 ELSE 10 * Power10(n - 1)

\* A natural number of any size is the sequence of its decimal digits, the
\* most significant first and not 0; the empty sequence is 0.
NoDigits(n) == <<>> \o [i \in 1..n |-> 0]

\* a * 10^n
BigShift(a, n) == IF Len(a) = 0 THEN a ELSE a \o NoDigits(n)

\* 2 * a: the carry into a digit is 1 exactly when the digit after it is 5 or more
BigDouble(a) ==
  LET n == Len(a)
      low == [i \in 1..n |->
                (2 * a[i] + (IF i < n /\ a[i + 1] >= 5 THEN 1 ELSE 0)) % 10]
  IN (IF n > 0 /\ a[1] >= 5 THEN <<1>> ELSE <<>>) \o low

\* a \div 2: a digit receives 10 from an odd digit before it
BigHalf(a) ==
  LET n == Len(a)
      h == [i \in 1..n |->
              (a[i] + (IF i > 1 /\ a[i - 1] % 2 = 1 THEN 10 ELSE 0)) \div 2]
  IN DropLeadingZeros(<<>> \o h)

\* a * 2^n and a * 5^n (5 * a is half of 10 * a), the n steps taken in two
\* halves; the set binds the value of the first half before the second starts
RECURSIVE BigTimes2To(_, _)
BigTimes2To(a, n) ==
  IF n = 0 THEN a
  ELSE IF n = 1 THEN BigDouble(a)
  ELSE CHOOSE y \in {BigTimes2To(x, n - (n \div 2)) : x \in {BigTimes2To(a, n \div 2)}} : TRUE

RECURSIVE BigTimes5To(_, _)
BigTimes5To(a, n) ==
  IF n = 0 THEN a
  ELSE IF n = 1 THEN BigHalf(BigShift(a, 1))
  ELSE CHOOSE y \in {BigTimes5To(x, n - (n \div 2)) : x \in {BigTimes5To(a, n \div 2)}} : TRUE

\* -1, 0 or 1 as the digits of a from i on are less than, equal to or more
\* than those of b, two sequences of one length
RECURSIVE CompareFrom(_, _, _)
CompareFrom(a, b, i) ==
  IF i > Len(a) THEN 0
  ELSE IF a[i] < b[i] THEN -1
  ELSE IF a[i] > b[i] THEN 1
  ELSE CompareFrom(a, b, i + 1)

BigCompare(a, b) ==
  IF Len(a) < Len(b) THEN -1
  ELSE IF Len(a) > Len(b) THEN 1
  ELSE CompareFrom(a, b, 1)

\* a - b for a >= b: a digit lends 1 exactly when the digits of a after it
\* are less than those of b
BigMinus(a, b) ==
  LET n == Len(a)
      pad == n - Len(b)
      bp == NoDigits(pad) \o b
      borrow(i) == IF CompareFrom(a, bp, i + 1) < 0 THEN 1 ELSE 0
  IN DropLeadingZeros(<<>> \o [i \in 1..n |-> (a[i] - bp[i] - borrow(i) + 10) % 10])

\* the index of the last digit of the first i digits of a that is not 9, else 0
RECURSIVE LastNot9(_, _)
LastNot9(a, i) == IF i > 0 /\ a[i] = 9 THEN LastNot9(a, i - 1) ELSE i

\* a + 1
BigSucc(a) ==
  LET n == Len(a)
      j == LastNot9(a, n)
  IN IF j = 0 THEN <<1>> \o NoDigits(n)
     ELSE <<>> \o [i \in 1..n |-> IF i < j THEN a[i] ELSE IF i = j THEN a[i] + 1 ELSE 0]

BigOdd(a) == Len(a) > 0 /\ a[Len(a)] % 2 = 1

\* The doubles are 0, the infinities and m * 2^q with m < 2^53 and
\* -1074 <= q <= 971, where m >= 2^52 unless q = -1074.
TwoTo52 == <<4, 5, 0, 3, 5, 9, 9, 6, 2, 7, 3, 7, 0, 4, 9, 6>>
TwoTo53 == <<9, 0, 0, 7, 1, 9, 9, 2, 5, 4, 7, 4, 0, 9, 9, 2>>
MinExponent == -1074
MaxExponent == 971

\* One step towards the q and the pair n, t, scaled by powers of 2, with n / t
\* the value over 2^(q + 52) and 1 <= n / t < 2, or q the least exponent, or q
\* past the greatest.
Aligned(a) ==
  IF BigCompare(a.n, a.t) < 0 THEN a.q = MinExponent
  ELSE a.q > MaxExponent \/ BigCompare(a.n, BigDouble(a.t)) < 0

AlignStep(a) ==
  IF Aligned(a) THEN a
  ELSE IF BigCompare(a.n, a.t) < 0 THEN [n |-> BigDouble(a.n), t |-> a.t, q |-> a.q - 1]
  ELSE [n |-> a.n, t |-> BigDouble(a.t), q |-> a.q + 1]

\* i steps, taken in two halves
RECURSIVE Align(_, _)
Align(a, i) ==
  IF i = 0 \/ Aligned(a) THEN a
  ELSE IF i = 1 THEN AlignStep(a)
  ELSE CHOOSE y \in {Align(x, i - (i \div 2)) : x \in {Align(a, i \div 2)}} : TRUE

\* the next binary digit of r / t, put after those of m, and what is left, doubled
Bit(b, t) ==
  IF BigCompare(b.r, t) >= 0
  THEN [m |-> BigSucc(BigDouble(b.m)), r |-> BigDouble(BigMinus(b.r, t))]
  ELSE [m |-> BigDouble(b.m), r |-> BigDouble(b.r)]

\* the next i binary digits
RECURSIVE Bits(_, _, _)
Bits(b, t, i) ==
  IF i = 0 THEN b
  ELSE CHOOSE y \in {Bits(x, t, i - 1) : x \in {Bit(b, t)}} : TRUE

\* m * 2^q, where m = 2^53 is written 2^52 * 2^(q + 1)
Carried(m, q) ==
  IF m = TwoTo53 THEN [m |-> TwoTo52, q |-> q + 1] ELSE [m |-> m, q |-> q]

\* the binary digits b.m, with b.r / t left of a value over 2^q, rounded to
\* the nearest, a tie to the even
Rounded(b, t, q) ==
  IF BigCompare(b.r, t) > 0 \/ (b.r = t /\ BigOdd(b.m))
  THEN Carried(BigSucc(b.m), q)
  ELSE Carried(b.m, q)

\* the 53 binary digits of a.n / a.t, rounded
Mantissa(a) == Rounded(Bits([m |-> <<>>, r |-> a.n], a.t, 53), a.t, a.q)

\* The double nearest to digits * 10^e, ties to the even mantissa, for
\* digits that are not 0: its m and q, m = <<>> for 0 and q > MaxExponent
\* for an infinity.  It starts from n / t = digits * 10^e / 2^52.
ToDouble(digits, e) ==
  Mantissa(Align(IF e >= 0
                 THEN [n |-> BigShift(digits, e), t |-> TwoTo52, q |-> 0]
                 ELSE [n |-> digits, t |-> BigShift(TwoTo52, -e), q |-> 0],
                 MaxExponent - MinExponent))

\* a * 2^u, as digits and a decimal exponent
Scaled(a, u) == IF u >= 0 THEN BigTimes2To(a, u) ELSE BigTimes5To(a, -u)

\* In units of 2^u the double is m4 and the decimals that round to it lie
\* between m4 - 2 (m4 - 1 where the doubles below are twice as dense) and
\* m4 + 2, the ends included when the mantissa is even: these three as
\* digits, times 10^x.
Around(m4, dense, u, odd) ==
  [v |-> Scaled(m4, u),
   low |-> Scaled(BigMinus(m4, IF dense THEN <<1>> ELSE <<2>>), u),
   high |-> Scaled(BigSucc(BigSucc(m4)), u),
   x |-> IF u >= 0 THEN 0 ELSE u,
   odd |-> odd]

Interval(m, q) ==
  Around(BigDouble(BigDouble(m)), m = TwoTo52 /\ q > MinExponent, q - 2, BigOdd(m))

\* the decimal c rounds to the double of the interval
Inside(iv, c) ==
  IF iv.odd THEN BigCompare(iv.low, c) < 0 /\ BigCompare(c, iv.high) < 0
  ELSE BigCompare(iv.low, c) <= 0 /\ BigCompare(c, iv.high) <= 0

\* of the decimal f under v and the decimal c over it, with the digits head
\* and head + 1 and n zeros after them, the one that rounds to the double,
\* the nearer when both do and then the even of a tie; no digits when
\* neither does
Between(iv, head, n, f, c) ==
  IF Inside(iv, f) /\ Inside(iv, c)
  THEN (IF BigCompare(BigMinus(iv.v, f), BigMinus(c, iv.v)) < 0
           \/ (BigMinus(iv.v, f) = BigMinus(c, iv.v) /\ ~BigOdd(head))
        THEN [s |-> head, n |-> n] ELSE [s |-> BigSucc(head), n |-> n])
  ELSE IF Inside(iv, f) THEN [s |-> head, n |-> n]
  ELSE IF Inside(iv, c) THEN [s |-> BigSucc(head), n |-> n]
  ELSE [s |-> <<>>, n |-> n]

\* the decimals of k digits next to v
OfLength(iv, k, head) ==
  Between(iv, head, Len(iv.v) - k,
          BigShift(head, Len(iv.v) - k), BigShift(BigSucc(head), Len(iv.v) - k))

\* the shortest decimal of k digits or more that rounds to the double
RECURSIVE Shortest(_, _)
Shortest(iv, k) ==
  IF k >= Len(iv.v) THEN [s |-> iv.v, n |-> 0]
  ELSE CHOOSE y \in {IF x.s # <<>> THEN x ELSE Shortest(iv, k + 1) :
                       x \in {OfLength(iv, k, SubSeq(iv.v, 1, k))}} : TRUE

\* sign * digits * 10^e as a value, digits without a zero at either end
Decimal(sign, digits, e) ==
  IF Len(digits) = 0 THEN Num(0)
  ELSE IF e >= 0 /\ Len(digits) + e <= 9 THEN Num(sign * IntegerOf(digits) * Power10(e))
  ELSE Dec(sign, digits, e)

\* the value of the digits w.s * 10^(w.n + x)
Written(sign, w, x) ==
  Decimal(sign, SubSeq(w.s, 1, Len(w.s) - TrailingZeros(w.s)),
          x + w.n + TrailingZeros(w.s))

\* The value written with the shortest decimal that the double of the
\* interval is the nearest double to, and of these the nearest to it
\* (Number::toString).
ShortestDecimal(sign, iv) == Written(sign, Shortest(iv, 1), iv.x)

\* the value of the double d
OfDouble(sign, d) ==
  IF d.q > MaxExponent THEN Infinity(sign)
  ELSE IF d.m = <<>> THEN Num(0)
  ELSE ShortestDecimal(sign, Interval(d.m, d.q))

\* The Number value of sign * digits * 10^e, digits without a zero at either
\* end: the nearest double, written with its shortest digits.  A decimal of
\* at most 15 digits among the normal doubles is the shortest decimal of its
\* own double; one of 10^310 or more is past every double and one under
\* 10^-325 is under half the least double.
NumberOf(sign, digits, e) ==
  IF Len(digits) = 0 THEN Num(0)
  ELSE IF Len(digits) <= 15 /\ -306 <= Len(digits) + e /\ Len(digits) + e <= 308
  THEN Decimal(sign, digits, e)
  ELSE IF Len(digits) + e > 310 THEN Infinity(sign)
  ELSE IF Len(digits) + e < -325 THEN Num(0)
  ELSE OfDouble(sign, ToDouble(digits, e))

\* The Number value of sign * (the digits ds) * 10^exp
Number(sign, ds, exp) ==
  NumberOf(sign, SubSeq(ds, FirstNonZero(ds, 1), Len(ds) - TrailingZeros(ds)),
           exp + TrailingZeros(ds))

\* the exponent digits as an integer, saturated
Exponent(ds) ==
  LET lead == DropLeadingZeros(ds)
  IN IF Len(lead) > 6 THEN 999999 ELSE IntegerOf(lead)

\* number: -? (0 | [1-9][0-9]*) (. [0-9]+)? ([eE] [+-]? [0-9]+)?  with s[i]
\* a "-" or a digit
ParseNumber(s, i) ==
  LET a == IF s[i] = "-" THEN i + 1 ELSE i
      intOk == a <= Len(s) /\ s[a] \in DecimalDigits
      b == IF intOk /\ s[a] = "0" THEN a + 1 ELSE DigitsEnd(s, a)
      hasFrac == b <= Len(s) /\ s[b] = "."
      c == IF hasFrac THEN DigitsEnd(s, b + 1) ELSE b
      fracOk == hasFrac => c > b + 1
      hasExp == c <= Len(s) /\ s[c] \in {"e", "E"}
      signed == hasExp /\ c + 1 <= Len(s) /\ s[c + 1] \in {"+", "-"}
      d == IF signed THEN c + 2 ELSE c + 1
      e == IF hasExp THEN DigitsEnd(s, d) ELSE c
      expOk == hasExp => e > d
      value(from, to) == [j \in 1..(to - from) |-> DigitValue(s[from + j - 1])]
      int == value(a, b)
      frac == IF hasFrac THEN value(b + 1, c) ELSE <<>>
      exp == IF ~hasExp THEN 0
             ELSE IF signed /\ s[c + 1] = "-" THEN -Exponent(value(d, e))
             ELSE Exponent(value(d, e))
  IN IF intOk /\ fracOk /\ expOk
     THEN Parsed(Number(IF s[i] = "-" THEN -1 ELSE 1, int \o frac, exp - Len(frac)), e)
     ELSE Fail

\* the code units U+0000 .. U+001F, which a JSON string may not hold unescaped
ControlCharacters == {Chr(n) : n \in 0..31}

HexLower ==
  <<"0", "1", "2", "3", "4", "5", "6", "7", "8", "9", "a", "b", "c", "d", "e", "f">>

IsHex(c) == \E d \in 1..16 : c = HexDigits[d] \/ c = HexLower[d]

HexValue(c) == (CHOOSE d \in 1..16 : c = HexDigits[d] \/ c = HexLower[d]) - 1

\* what follows the backslash of an escape other than \u
SimpleEscape(c) ==
  CASE c = "\"" -> "\""
    [] c = "\\" -> "\\"
    [] c = "/" -> "/"
    [] c = "b" -> Chr(8)
    [] c = "f" -> "\f"
    [] c = "n" -> "\n"
    [] c = "r" -> "\r"
    [] c = "t" -> "\t"

\* string: the characters from i, after the opening quote, to the closing one
RECURSIVE StringFrom(_, _, _)
StringFrom(s, i, acc) ==
  IF i > Len(s) THEN Fail
  ELSE IF s[i] = "\"" THEN Parsed(Str(acc), i + 1)
  ELSE IF s[i] = "\\"
    THEN IF i + 1 > Len(s) THEN Fail
         ELSE IF s[i + 1] \in {"\"", "\\", "/", "b", "f", "n", "r", "t"}
           THEN StringFrom(s, i + 2, Append(acc, SimpleEscape(s[i + 1])))
         ELSE IF s[i + 1] = "u" /\ i + 5 <= Len(s)
                 /\ \A j \in (i + 2)..(i + 5) : IsHex(s[j])
           THEN StringFrom(s, i + 6,
                  Append(acc, Chr(4096 * HexValue(s[i + 2]) + 256 * HexValue(s[i + 3])
                                    + 16 * HexValue(s[i + 4]) + HexValue(s[i + 5]))))
         ELSE Fail
  ELSE IF s[i] \in ControlCharacters THEN Fail
  ELSE StringFrom(s, i + 1, Append(acc, s[i]))

\* One code unit of the name of a property: a backslash is written twice and
\* a code unit written "U+XXXX" follows a backslash, so that the name whose
\* one character is U+0060 and the name of the six characters U, +, 0, 0, 6, 0
\* differ, as every two names do.
NameUnit(c) ==
  IF c = "\\" THEN "\\\\"
  ELSE IF Len(c) > 1 THEN "\\" \o c
  ELSE c

\* the name of a property: its code units, concatenated
RECURSIVE PropertyName(_)
PropertyName(key) ==
  IF Len(key) = 0 THEN "" ELSE NameUnit(key[1]) \o PropertyName(Tail(key))

\* true, false, null
Literal(s, i, word, v) ==
  IF i + Len(word) - 1 <= Len(s) /\ SubSeq(s, i, i + Len(word) - 1) = word
  THEN Parsed(v, i + Len(word)) ELSE Fail

RECURSIVE ParseValue(_, _), ParseElements(_, _, _), ParseMembers(_, _, _)

\* value, with the white space before it
ParseValue(s, from) ==
  LET i == SkipWhiteSpace(s, from)
  IN IF i > Len(s) THEN Fail
     ELSE CASE s[i] = "{" ->
                 LET j == SkipWhiteSpace(s, i + 1)
                 IN IF j <= Len(s) /\ s[j] = "}" THEN Parsed(EmptyObject, j + 1)
                    ELSE ParseMembers(s, j, EmptyObject[2])
            [] s[i] = "[" ->
                 LET j == SkipWhiteSpace(s, i + 1)
                 IN IF j <= Len(s) /\ s[j] = "]" THEN Parsed(Arr(<<>>), j + 1)
                    ELSE ParseElements(s, j, <<>>)
            [] s[i] = "\"" -> StringFrom(s, i + 1, <<>>)
            [] s[i] = "-" \/ s[i] \in DecimalDigits -> ParseNumber(s, i)
            [] s[i] = "t" -> Literal(s, i, S_true, Bool(TRUE))
            [] s[i] = "f" -> Literal(s, i, S_false, Bool(FALSE))
            [] s[i] = "n" -> Literal(s, i, S_null, Null)
            [] OTHER -> Fail

\* elements: value (, value)* ]
ParseElements(s, i, acc) ==
  LET v == ParseValue(s, i)
  IN IF ~v.ok THEN Fail
     ELSE LET j == SkipWhiteSpace(s, v.next)
          IN IF j > Len(s) THEN Fail
             ELSE IF s[j] = "," THEN ParseElements(s, j + 1, Append(acc, v.value))
             ELSE IF s[j] = "]" THEN Parsed(Arr(Append(acc, v.value)), j + 1)
             ELSE Fail

\* members: string : value (, string : value)* } ; a repeated name keeps
\* its last value
ParseMembers(s, from, acc) ==
  LET i == SkipWhiteSpace(s, from)
  IN IF i > Len(s) \/ s[i] # "\"" THEN Fail
     ELSE LET key == StringFrom(s, i + 1, <<>>)
          IN IF ~key.ok THEN Fail
             ELSE LET c == SkipWhiteSpace(s, key.next)
                  IN IF c > Len(s) \/ s[c] # ":" THEN Fail
                     ELSE LET v == ParseValue(s, c + 1)
                          IN IF ~v.ok THEN Fail
                             ELSE LET j == SkipWhiteSpace(s, v.next)
                                      members ==
                                        (PropertyName(key.value[2]) :> v.value) @@ acc
                                  IN IF j > Len(s) THEN Fail
                                     ELSE IF s[j] = ","
                                       THEN ParseMembers(s, j + 1, members)
                                     ELSE IF s[j] = "}" THEN Parsed(Obj(members), j + 1)
                                     ELSE Fail

\* JSON.parse(text): the value the text denotes, or a SyntaxError
JSONparse(text) ==
  LET v == ParseValue(text, 1)
  IN IF v.ok /\ SkipWhiteSpace(text, v.next) > Len(text) THEN v.value ELSE SyntaxError

RECURSIVE indexOf(_, _, _)
indexOf(s, c, i) ==
  IF i > Len(s) THEN 0 ELSE IF s[i] = c THEN i ELSE indexOf(s, c, i + 1)

\* raw.match(/\{[\s\S]*\}$/): from the first "{" to the end of a text that
\* ends with "}"; Null when there is no match
jsonMatch(raw) ==
  LET i == indexOf(raw, "{", 1)
  IN IF i > 0 /\ i < Len(raw) /\ raw[Len(raw)] = "}"
     THEN Str(SubSeq(raw, i, Len(raw)))
     ELSE Null

(************************** callLLMSimplify ********************************)
\* shortSummary that keeps every line
shortSummary_AllLines(raw) == join(split(raw, "\n"), <<" ">>)

\* raw.split('\n').slice(0, 3).join(' ')
shortSummary(raw) == join(slice(split(raw, "\n"), 3), <<" ">>)

\* resp?.choices?.[0]?.message?.content
content(resp) == OptGet(OptGet(OptFirst(OptGet(resp, "choices")), "message"), "content")

\* resp?.choices?.[0]?.text
choiceText(resp) == OptGet(OptFirst(OptGet(resp, "choices")), "text")

staticKeywords == Arr(<<Str(K_healthy), Str(K_blood), Str(K_heart), Str(K_fitness)>>)

\* the catch block of the current callLLMSimplify
degraded ==
  Obj([simplified |-> Str(DEGRADED_MESSAGE),
       visual_keywords |-> Arr(<<>>),
       short_summary |-> Str(<<>>)])

\* the fallback of the earlier callLLMSimplify: the raw reply, wrapped
wrapped(raw) ==
  Obj([simplified |-> raw,
       visual_keywords |-> Arr(<<>>),
       short_summary |-> Str(shortSummary(raw[2]))])

\* Current callLLMSimplify from the await on.  A rejection, and a TypeError
\* of content?.trim() on a content that is no string, land in the catch block.
callLLMSimplifyCurrent(outcome) ==
  IF outcome.kind = "rejected" THEN Return(degraded)
  ELSE LET c == content(outcome.value)
       IN IF c[1] \notin {"string", "undefined", "null"} THEN Return(degraded)
          ELSE LET raw == Or(IF c[1] = "string" THEN Str(trim(c[2])) ELSE Undefined,
                             Str(<<>>))
               IN Return(Obj([simplified |-> raw,
                              short_summary |-> Str(shortSummary(raw[2])),
                              visual_keywords |-> staticKeywords]))

\* Earlier callLLMSimplify from the await on.  The await is outside any try:
\* a rejection leaves the function as an exception.  So does the TypeError of
\* raw.match on a raw that is no string, thrown inside the catch block, which
\* is entered by a SyntaxError of JSON.parse and by a TypeError of the
\* conversion of raw alike.
callLLMSimplifyEarlier(outcome) ==
  IF outcome.kind = "rejected" THEN Throw
  ELSE LET raw == Or(Or(content(outcome.value), choiceText(outcome.value)), Str(<<>>))
           parsed == IF String(raw) = TypeError THEN SyntaxError ELSE JSONparse(String(raw))
       IN IF parsed # SyntaxError THEN Return(parsed)
          ELSE IF raw[1] # "string" THEN Throw
          ELSE LET m == jsonMatch(raw[2])
                   inner == IF m[1] = "null" THEN SyntaxError ELSE JSONparse(m[2])
               IN IF inner # SyntaxError THEN Return(inner) ELSE Return(wrapped(raw))

callLLMSimplify(v, outcome) ==
  IF v = "current" THEN callLLMSimplifyCurrent(outcome) ELSE callLLMSimplifyEarlier(outcome)

(************************* POST /api/simplify ******************************)
Respond(status, json) == [status |-> status, json |-> json]

\* reportMissing without the test for a report of white space only
reportMissing_NoTrim(report) == ~Truthy(report)

\* !report || String(report).trim().length === 0, for a report whose
\* conversion does not throw
reportMissing(report) ==
  \/ ~Truthy(report)
  \/ Len(trim(String(report))) = 0

\* card without the encodeURIComponent
card_NotEncoded(k) ==
  [keyword |-> k, image_hint |-> Str(IMAGE_HINT_PREFIX \o String(k))]

\* k => ({ keyword: k, image_hint: `https://source.unsplash.com/featured/?${encodeURIComponent(k)}` })
\* for a k that encodeURIComponent accepts
card(k) ==
  [keyword |-> k,
   image_hint |-> Str(IMAGE_HINT_PREFIX \o encodeURIComponent(String(k)))]

defaultCards ==
  << [keyword |-> Str(K_doctor_patient), image_hint |-> Str(HINT_doctor_patient)],
     [keyword |-> Str(K_heart), image_hint |-> Str(HINT_heart)] >>

\* x.length
length(x) == Get(x, "length")

\* keywordCards without the slice(0,4); a keyword whose conversion to a
\* string throws is left without image_hint
keywordCards_NoSlice(keywords) ==
  [i \in 1..Len(keywords) |->
     IF String(keywords[i]) = TypeError THEN [keyword |-> keywords[i]]
     ELSE card(keywords[i])]

\* result.visual_keywords.slice(0,4).map(...)
keywordCards(keywords) ==
  LET first == slice(keywords, 4)
  IN [i \in 1..Len(first) |-> card(first[i])]

serverError == Respond(500, [error |-> "Failed to simplify. Check server logs."])

\* From the entry of the handler to the response, or to the await of
\* callLLMSimplify.  A TypeError of String(report) is thrown inside the
\* handler's try and answered at once.  A TypeError of the conversion of
\* targetLang or tone is thrown while callLLMSimplify builds `user`, before
\* it calls the service and outside its try: the promise the handler awaits
\* is rejected and no call was made.
simplifyEntry(v, body) ==
  LET b == Or(body, EmptyObject)
      report == Get(b, "report")
      targetLang == Default(Get(b, "targetLang"), Str(S_en))
      tone == Default(Get(b, "tone"), Str(S_friendly))
  IN IF Truthy(report) /\ String(report) = TypeError
     THEN [kind |-> "respond", response |-> serverError]
     ELSE IF reportMissing(report)
     THEN [kind |-> "respond",
           response |-> Respond(400, [error |-> "report text required"])]
     ELSE LET clean == trim(String(report))
          IN IF user(v, clean, targetLang, tone) = TypeError
             THEN [kind |-> "rejected", completion |-> Throw]
             ELSE [kind |-> "await",
                   call |-> [service |-> "openai.chat.completions.create",
                             args |-> createArgs(v, clean, targetLang, tone)],
                   frame |-> suspendedFrame(clean)]

\* encodeURIComponent(k) throws: the TypeError of the conversion of k or the
\* URIError of a lone surrogate
cardThrows(k) ==
  \/ String(k) = TypeError
  \/ encodeURIComponent(String(k)) = URIError

\* From the return of callLLMSimplify to the response.  An exception of
\* callLLMSimplify, reading a property of undefined or null, calling .slice
\* or .map on what has none, and an exception of encodeURIComponent all end
\* in the handler's catch, which answers the 500.
simplifyRespond(completion) ==
  IF completion.kind = "throw" THEN serverError
  ELSE LET result == completion.value
       IN IF result[1] \in {"undefined", "null"} THEN serverError
          ELSE LET keywords == Get(result, "visual_keywords")
                   some == Truthy(keywords) /\ Truthy(length(keywords))
               IN IF some /\ keywords[1] # "array" THEN serverError
                  ELSE IF some /\ \E i \in 1..Len(slice(keywords[2], 4)) :
                            cardThrows(keywords[2][i])
                    THEN serverError
                  ELSE Respond(200,
                         [simplified |-> Or(Get(result, "simplified"), Str(<<>>)),
                          short_summary |-> Or(Get(result, "short_summary"), Str(<<>>)),
                          visual_cards |-> IF some THEN keywordCards(keywords[2])
                                           ELSE defaultCards])

(************************** POST /api/upload *******************************)
\* buffer.toString('utf8') of the bytes a text file is made of here: one-byte
\* characters, and 0xFF, which no UTF-8 text holds and which decodes to U+FFFD
utf8Char(byte) ==
  CASE byte = 10 -> "\n"
    [] byte = 13 -> "\r"
    [] byte = 32 -> " "
    [] byte = 72 -> "H"
    [] byte = 98 -> "b"
    [] byte = 255 -> "U+FFFD"

toStringUtf8(buffer) == [i \in 1..Len(buffer) |-> utf8Char(buffer[i])]

isText(file) ==
  \/ Get(file, "mimetype") = Str(M_text_plain)
  \/ endsWith(Get(file, "originalname")[2], S_txt)

\* isPdf that takes every application/... type for a PDF
isPdf_AnyApplication(file) ==
  \/ Get(file, "mimetype") # Str(M_text_plain)
  \/ endsWith(Get(file, "originalname")[2], S_pdf)

isPdf(file) ==
  \/ Get(file, "mimetype") = Str(M_application_pdf)
  \/ endsWith(Get(file, "originalname")[2], S_pdf)

uploadEntry(file) ==
  IF ~Truthy(file)
  THEN [kind |-> "respond", calls |-> <<>>,
        response |-> Respond(400, [error |-> "No file uploaded"])]
  ELSE IF isText(file)
  THEN [kind |-> "respond",
        calls |-> << [service |-> "buffer.toString", args |-> Get(file, "buffer")] >>,
        response |-> Respond(200, [text |-> Str(toStringUtf8(Get(file, "buffer")[2]))])]
  ELSE IF isPdf(file)
  THEN [kind |-> "await",
        call |-> [service |-> "pdf", args |-> Get(file, "buffer")]]
  ELSE [kind |-> "respond", calls |-> <<>>,
        response |-> Respond(400, [error |-> "Unsupported file type. Use .txt or .pdf"])]

parseError == Respond(500, [error |-> "Failed to parse uploaded file"])

\* uploadRespond that answers a failed parse like an empty document
uploadRespond_EmptyOnFailure(outcome) ==
  Respond(200,
    [text |-> IF outcome.kind = "resolved" /\ Truthy(outcome.value)
                   /\ Get(outcome.value, "text")[1] = "string"
              THEN Str(replaceCRLF(Get(outcome.value, "text")[2]))
              ELSE Str(<<>>)])

\* From the settling of pdf(req.file.buffer) to the response.  A truthy
\* data.text that is no string has no .replace: a TypeError, so the 500.
uploadRespond(outcome) ==
  IF outcome.kind = "rejected" THEN parseError
  ELSE LET data == outcome.value
           some == Truthy(data) /\ Truthy(Get(data, "text"))
       IN IF some /\ Get(data, "text")[1] # "string" THEN parseError
          ELSE Respond(200,
                 [text |-> IF some THEN Str(replaceCRLF(Get(data, "text")[2]))
                           ELSE Str(<<>>)])

(******************************* inputs ************************************)
M_application_json ==
  <<"a","p","p","l","i","c","a","t","i","o","n","/","j","s","o","n">>
M_octet_stream ==
  <<"a","p","p","l","i","c","a","t","i","o","n","/","o","c","t","e","t","-","s","t","r","e","a","m">>
N_report_txt ==
  <<"r","e","p","o","r","t",".","t","x","t">>
N_scan_pdf ==
  <<"s","c","a","n",".","p","d","f">>
N_data_json ==
  <<"d","a","t","a",".","j","s","o","n">>
N_notes ==
  <<"n","o","t","e","s">>

\* " Hb low\n": a short report with white space around it
HbLow == <<" ", "H", "b", " ", "l", "o", "w", "\n">>

\* MAX_INPUT_CHARS times "x"
Pad == [i \in 1..MAX_INPUT_CHARS |-> "x"]

\* a report of MAX_INPUT_CHARS + over characters
LongReport(over) == Pad \o [i \in 1..over |-> "y"]

Report(s) == Obj([report |-> Str(s)])

\* objects as JSON gives them, with an own property toString, and one with
\* an own valueOf only
NoString == Obj([toString |-> Num(1)])
NullString == Obj([toString |-> Null])
TextString == Obj([toString |-> Str(<<"x">>), valueOf |-> Num(2)])
OwnValueOf == Obj([valueOf |-> Num(2)])

\* request bodies of POST /api/simplify, as express.json() leaves them
Bodies ==
  { Report(<<" ", "\n">>),
    Obj([report |-> Str(HbLow), targetLang |-> Str(<<"h", "i">>),
         tone |-> Str(<<"c", "a", "l", "m">>)]),
    Obj([report |-> Str(HbLow), tone |-> NoString]),
    Report(LongReport(MaxOver)) }

BodiesWide ==
  Bodies \cup
  { Undefined,
    EmptyObject,
    Arr(<<>>),
    Report(HbLow),
    Obj([report |-> Null]),
    Obj([report |-> Num(0)]),
    Obj([report |-> Num(7)]),
    Obj([report |-> Bool(TRUE)]),
    Obj([report |-> Bool(FALSE)]),
    Obj([report |-> Arr(<<>>)]),
    Obj([report |-> Arr(<<Null, Num(7)>>)]),
    Obj([report |-> EmptyObject]),
    Obj([targetLang |-> Str(<<"h", "i">>)]),
    Report(<<>>),
    Report(<<"\t", "\r", "\n", " ">>),
    Report(<<"\f", Chr(11), Chr(160), Chr(8232), Chr(65279)>>),
    Report(<<"\f", "H", "b", Chr(160)>>),
    Report(<<Chr(8203), " ">>),
    Report(<<" ">> \o Pad \o <<"\n">>),
    Obj([report |-> Str(HbLow), targetLang |-> Null]),
    Obj([report |-> Str(HbLow), tone |-> Num(7)]),
    Obj([report |-> NoString]),
    Obj([report |-> Arr(<<NullString>>)]),
    Obj([report |-> OwnValueOf]),
    Obj([report |-> Str(HbLow), targetLang |-> TextString]),
    Obj([report |-> Str(HbLow), targetLang |-> OwnValueOf,
         tone |-> Arr(<<Num(1), Arr(<<NullString>>)>>)]),
    Obj([report |-> NoString, targetLang |-> NoString]) }
  \cup { Report(LongReport(over)) : over \in 0..MaxOver }

\* the names of the properties the texts below hold, in the order written
KeyOrder ==
  <<"simplified", "visual_keywords", "short_summary", "length", "toString", "valueOf">>

KeyName(k) ==
  CASE k = "simplified" -> <<"s","i","m","p","l","i","f","i","e","d">>
    [] k = "visual_keywords" -> <<"v","i","s","u","a","l","_","k","e","y","w","o","r","d","s">>
    [] k = "short_summary" -> <<"s","h","o","r","t","_","s","u","m","m","a","r","y">>
    [] k = "length" -> <<"l","e","n","g","t","h">>
    [] k = "toString" -> <<"t","o","S","t","r","i","n","g">>
    [] k = "valueOf" -> <<"v","a","l","u","e","O","f">>

\* A JSON text of a value: strings without characters that need an escape,
\* the members of an object in KeyOrder, no insignificant white space.
RECURSIVE JSONText(_)
JSONText(x) ==
  CASE x[1] = "string" -> <<"\"">> \o x[2] \o <<"\"">>
    [] x[1] = "number" -> String(x)
    [] x[1] = "boolean" -> String(x)
    [] x[1] = "null" -> S_null
    [] x[1] = "array" ->
         <<"[">> \o join([i \in 1..Len(x[2]) |-> JSONText(x[2][i])], <<",">>) \o <<"]">>
    [] x[1] = "object" ->
         LET keys == SelectSeq(KeyOrder, LAMBDA k : k \in DOMAIN x[2])
             member(k) == <<"\"">> \o KeyName(k) \o <<"\"", ":">> \o JSONText(x[2][k])
         IN <<"{">> \o join([i \in 1..Len(keys) |-> member(keys[i])], <<",">>) \o <<"}">>

\* a value with more keywords than a response has cards
FiveKeywords ==
  Obj([simplified |-> Num(7),
       visual_keywords |-> Arr(<<Str(<<"a", ",", "b">>), Null, Num(7),
                                 Str(<<"c", "/", "d">>), Str(<<"e">>)>>)])

\* values a reply can denote
JSONValues ==
  { Null,
    Num(7),
    Num(0),
    Bool(TRUE),
    Str(<<"o", "k">>),
    Arr(<<>>),
    EmptyObject,
    Obj([simplified |-> Str(<<"o", "k">>)]),
    Obj([simplified |-> Str(<<"o", "k">>),
         visual_keywords |-> Arr(<<>>),
         short_summary |-> Str(<<"s">>)]),
    Obj([simplified |-> Str(<<"o", "k">>),
         visual_keywords |-> Arr(<<Str(<<"x", " ", "r", "a", "y">>)>>),
         short_summary |-> Str(<<"s">>)]),
    FiveKeywords,
    Obj([visual_keywords |-> Arr(<<Bool(FALSE), EmptyObject, Arr(<<Null, Num(1)>>),
                                   Str(<<Chr(233), Chr(8364)>>)>>)]),
    Obj([visual_keywords |-> Arr(<<Str(<<Chr(55357), Chr(56832)>>)>>)]),
    Obj([visual_keywords |-> Arr(<<Str(<<"a">>), Str(<<Chr(55357)>>)>>)]),
    Obj([visual_keywords |-> Str(<<"a", "b">>)]),
    Obj([visual_keywords |-> Str(<<>>)]),
    Obj([visual_keywords |-> Num(7)]),
    Obj([visual_keywords |-> Bool(TRUE)]),
    Obj([visual_keywords |-> Obj([length |-> Num(2)])]),
    Obj([visual_keywords |-> Obj([length |-> Num(0)])]),
    Obj([visual_keywords |-> EmptyObject]),
    Obj([visual_keywords |-> Arr(<<NoString>>)]),
    Obj([visual_keywords |-> Arr(<<Str(<<"a">>), Arr(<<Arr(<<TextString>>)>>)>>)]),
    Obj([visual_keywords |-> Arr(<<OwnValueOf, Arr(<<Null, OwnValueOf>>)>>)]),
    Obj([visual_keywords |-> Arr(<<Str(<<"a">>), Str(<<"b">>), Str(<<"c">>), Str(<<"d">>),
                                   NullString>>)]),
    NoString }

\* reply texts written character by character: white space, fractions,
\* exponents, numbers that are no double, escapes, a repeated name, the two
\* names U+0060 (six characters) and ` (one), and texts that are not JSON
ReplyTexts ==
  { <<" ", "7", "\n">>,
    <<"0", ".", "1", "2", "3", "4", "5", "6", "7", "8", "9", "0", "1", "2", "3", "4", "5", "6", "7", "8", "9">>,
    <<"[", "9", "0", "0", "7", "1", "9", "9", "2", "5", "4", "7", "4", "0", "9", "9", "3", ",",
      "1", ".", "0", "0", "0", "0", "0", "0", "0", "0", "0", "0", "0", "0", "0", "0", "0", "0", "1", "]">>,
    <<"4", "e", "-", "3", "2", "4">>,
    <<"-", "0">>,
    <<"0", "1">>,
    <<"1", ".">>,
    <<"1", ".", "5", "0">>,
    <<"-", "2", "5", "e", "-", "1">>,
    <<"1", "E", "3">>,
    <<"1", "e", "2", "1">>,
    <<"1", "e", "4", "0", "0">>,
    <<"[", "1", ".", "5", ",", "1", "e", "2", "1", ",", "1", "e", "-", "7", "]">>,
    <<"\"", "a", "\\", "n", "\\", "u", "0", "0", "4", "1", "\\", "u", "0", "0", "e", "9", "\\", "/", "\"">>,
    <<"\"", "a", "\n", "\"">>,
    <<"\"", "\\", "x", "\"">>,
    <<"{", "\"", "a", "\"", ":", "1", ",", " ", "\"", "a", "\"", ":", "2", "}">>,
    <<"{", "\"", "U", "+", "0", "0", "6", "0", "\"", ":", "1", ",", "\"", Chr(96), "\"", ":", "2", "}">>,
    <<"{", "\"", "a", "\"", ":", "1", ",", "}">>,
    <<"[", "1", ",", "]">>,
    <<"[", " ", "n", "u", "l", "l", " ", ",", "f", "a", "l", "s", "e", "]", " ">>,
    <<"t", "r", "u", "e", "x">>,
    <<"'", "a", "'">> }

\* a chat completion whose first choice carries `c` as message.content
Completion(c) == Obj([choices |-> Arr(<< Obj([message |-> Obj([content |-> c])]) >>)])

FourLines == <<" ", "A", "\n", "B", " ", "b", "\n", "C", "\n", "D", "\n">>

Completions ==
  { Completion(Str(FourLines \o JSONText(FiveKeywords))) }

CompletionsWide ==
  Completions \cup
  { Completion(Str(FourLines)),
    Completion(Null),
    Completion(Str(<<>>)),
    Completion(Str(<<" ", "\n">>)),
    Completion(Str(<<"\f", "o", "k", Chr(160)>>)),
    Completion(Num(7)),
    Completion(Bool(FALSE)),
    Completion(Bool(TRUE)),
    Completion(Arr(<<Num(7)>>)),
    Completion(Arr(<<Str(<<"x">>)>>)),
    Completion(EmptyObject),
    Completion(NoString),
    Completion(Str(<<"x", "{", "y", "}">>)),
    Completion(Str(<<"{">>)),
    Obj([choices |-> Arr(<<>>)]),
    Obj([choices |-> Str(<<"a", "b", "c">>)]),
    Obj([choices |-> Arr(<< Obj([text |-> Str(<<"o", "l", "d">>)]) >>)]),
    Obj([choices |-> Arr(<< Obj([message |-> Obj([content |-> Str(<<>>)]),
                                 text |-> Str(<<"o", "l", "d">>)]) >>)]),
    Undefined,
    Null }
  \cup { Completion(Str(JSONText(x))) : x \in JSONValues }
  \cup { Completion(Str(<<"S", "o", ":", "\n">> \o JSONText(x))) : x \in JSONValues }
  \cup { Completion(Str(t)) : t \in ReplyTexts }

File(name, mimetype, bytes) ==
  Obj([originalname |-> Str(name), mimetype |-> Str(mimetype),
       buffer |-> <<"buffer", bytes>>])

\* "Hb\r\n" and a byte that is not UTF-8
Bytes == <<72, 98, 13, 10, 255>>

\* req.file as multer leaves it; Undefined when the form has no file field
Files ==
  { File(N_report_txt, M_text_plain, Bytes),
    File(N_scan_pdf, M_application_pdf, Bytes) }

FilesWide ==
  Files \cup
  { Undefined,
    File(N_data_json, M_application_json, Bytes),
    File(N_report_txt, M_octet_stream, Bytes),
    File(N_notes, M_text_plain, <<>>),
    File(N_scan_pdf, M_octet_stream, Bytes),
    File(N_notes, M_application_pdf, Bytes),
    File(N_report_txt, M_application_pdf, Bytes),
    File(N_scan_pdf, M_text_plain, Bytes),
    File(N_notes, M_octet_stream, Bytes),
    File(S_txt, M_application_json, <<>>) }

\* what pdf(buffer) resolves with
PdfData ==
  { Obj([text |-> Str(<<"H", "\r", "\n", "b", "\r", "\n">>)]) }

PdfDataWide ==
  PdfData \cup
  { Undefined,
    Null,
    Obj([text |-> Str(<<>>)]),
    Obj([numpages |-> Num(1)]),
    Obj([text |-> Num(7)]),
    Obj([text |-> Num(0)]),
    Obj([text |-> Str(<<"\r", "H", "\n", "\r", "\r", "\n">>)]) }

(****************************** actions ************************************)
NoRequest == [route |-> "none"]

\* The state after construction: the server listens, no request has arrived.
Idle ==
  /\ pc = [r \in Requests |-> "idle"]
  /\ req = [r \in Requests |-> NoRequest]
  /\ frame = [r \in Requests |-> <<>>]
  /\ calls = [r \in Requests |-> <<>>]
  /\ settled = [r \in Requests |-> <<>>]
  /\ returned = [r \in Requests |-> <<>>]
  /\ jobs = <<>>
  /\ res = [r \in Requests |-> <<>>]

Init == variant = "current" /\ Idle

InitAny == variant \in Variants /\ Idle

\* SimplifyRequest with callLLMSimplify's `text` kept in one module-level
\* variable instead of a local of each call
SimplifyRequest_SharedText(r, body) ==
  /\ pc[r] = "idle"
  /\ req' = [req EXCEPT ![r] = [route |-> "/api/simplify", body |-> body]]
  /\ LET e == simplifyEntry(variant, body)
     IN IF e.kind = "respond"
        THEN /\ res' = [res EXCEPT ![r] = Append(@, e.response)]
             /\ pc' = [pc EXCEPT ![r] = "done"]
             /\ UNCHANGED <<calls, frame, returned, jobs>>
        ELSE IF e.kind = "rejected"
        THEN /\ returned' = [returned EXCEPT ![r] = <<e.completion>>]
             /\ jobs' = Append(jobs, r)
             /\ pc' = [pc EXCEPT ![r] = "resumeSimplify"]
             /\ UNCHANGED <<calls, frame, res>>
        ELSE /\ calls' = [calls EXCEPT ![r] = Append(@, e.call)]
             /\ frame' = [q \in Requests |->
                            IF q = r \/ frame[q] # <<>> THEN <<e.frame>> ELSE <<>>]
             /\ pc' = [pc EXCEPT ![r] = "awaitLLM"]
             /\ UNCHANGED <<res, returned, jobs>>
  /\ UNCHANGED <<variant, settled>>

\* app.post('/api/simplify', ...) runs from its entry to a response or to
\* the await of openai.chat.completions.create inside callLLMSimplify, where
\* callLLMSimplify and, awaiting it, the handler are suspended.  When
\* callLLMSimplify throws before it calls the service, the handler is
\* suspended on a promise already rejected: the job that resumes it joins
\* the queue at once.
SimplifyRequest(r, body) ==
  /\ pc[r] = "idle"
  /\ req' = [req EXCEPT ![r] = [route |-> "/api/simplify", body |-> body]]
  /\ LET e == simplifyEntry(variant, body)
     IN IF e.kind = "respond"
        THEN /\ res' = [res EXCEPT ![r] = Append(@, e.response)]
             /\ pc' = [pc EXCEPT ![r] = "done"]
             /\ UNCHANGED <<calls, frame, returned, jobs>>
        ELSE IF e.kind = "rejected"
        THEN /\ returned' = [returned EXCEPT ![r] = <<e.completion>>]
             /\ jobs' = Append(jobs, r)
             /\ pc' = [pc EXCEPT ![r] = "resumeSimplify"]
             /\ UNCHANGED <<calls, frame, res>>
        ELSE /\ calls' = [calls EXCEPT ![r] = Append(@, e.call)]
             /\ frame' = [frame EXCEPT ![r] = <<e.frame>>]
             /\ pc' = [pc EXCEPT ![r] = "awaitLLM"]
             /\ UNCHANGED <<res, returned, jobs>>
  /\ UNCHANGED <<variant, settled>>

\* The awaited completion settles: the job that resumes callLLMSimplify
\* joins the queue.
LLMSettles(r, outcome) ==
  /\ pc[r] = "awaitLLM"
  /\ settled' = [settled EXCEPT ![r] = Append(@, outcome)]
  /\ jobs' = Append(jobs, r)
  /\ pc' = [pc EXCEPT ![r] = "resumeLLM"]
  /\ UNCHANGED <<variant, req, frame, calls, returned, res>>

LLMResolves(r, resp) == LLMSettles(r, Resolved(resp))

\* LLMRejects that invokes the service again after a failure
LLMRejects_Retry(r) ==
  /\ pc[r] = "awaitLLM"
  /\ settled' = [settled EXCEPT ![r] = Append(@, Rejected)]
  /\ calls' = [calls EXCEPT ![r] = Append(@, calls[r][1])]
  /\ UNCHANGED <<variant, pc, req, frame, returned, jobs, res>>

LLMRejects(r) == LLMSettles(r, Rejected)

\* The oldest job runs: callLLMSimplify resumes after its await and runs to
\* its return or its exception, which settles the promise the handler
\* awaits: the job that resumes the handler joins the queue.
ResumeCallLLMSimplify(r) ==
  /\ jobs # <<>> /\ Head(jobs) = r
  /\ pc[r] = "resumeLLM"
  /\ returned' = [returned EXCEPT ![r] = <<callLLMSimplify(variant, settled[r][1])>>]
  /\ frame' = [frame EXCEPT ![r] = <<>>]
  /\ jobs' = Append(Tail(jobs), r)
  /\ pc' = [pc EXCEPT ![r] = "resumeSimplify"]
  /\ UNCHANGED <<variant, req, calls, settled, res>>

\* The oldest job runs: the handler resumes after `await callLLMSimplify(...)`
\* and runs to its response.
ResumeSimplify(r) ==
  /\ jobs # <<>> /\ Head(jobs) = r
  /\ pc[r] = "resumeSimplify"
  /\ res' = [res EXCEPT ![r] = Append(@, simplifyRespond(returned[r][1]))]
  /\ jobs' = Tail(jobs)
  /\ pc' = [pc EXCEPT ![r] = "done"]
  /\ UNCHANGED <<variant, req, frame, calls, settled, returned>>

\* app.post('/api/upload', ...) runs from its entry to a response or to the
\* await of pdf(req.file.buffer).
UploadRequest(r, file) ==
  /\ pc[r] = "idle"
  /\ req' = [req EXCEPT ![r] = [route |-> "/api/upload", file |-> file]]
  /\ LET e == uploadEntry(file)
     IN IF e.kind = "respond"
        THEN /\ res' = [res EXCEPT ![r] = Append(@, e.response)]
             /\ calls' = [calls EXCEPT ![r] = @ \o e.calls]
             /\ pc' = [pc EXCEPT ![r] = "done"]
        ELSE /\ calls' = [calls EXCEPT ![r] = Append(@, e.call)]
             /\ pc' = [pc EXCEPT ![r] = "awaitPDF"]
             /\ UNCHANGED res
  /\ UNCHANGED <<variant, frame, settled, returned, jobs>>

\* The awaited pdf parse settles: the job that resumes the handler joins the
\* queue.
PdfSettles(r, outcome) ==
  /\ pc[r] = "awaitPDF"
  /\ settled' = [settled EXCEPT ![r] = Append(@, outcome)]
  /\ jobs' = Append(jobs, r)
  /\ pc' = [pc EXCEPT ![r] = "resumeUpload"]
  /\ UNCHANGED <<variant, req, frame, calls, returned, res>>

PdfResolves(r, data) == PdfSettles(r, Resolved(data))

PdfRejects(r) == PdfSettles(r, Rejected)

\* The oldest job runs: the handler resumes after `await pdf(...)` and runs
\* to its response.
ResumeUpload(r) ==
  /\ jobs # <<>> /\ Head(jobs) = r
  /\ pc[r] = "resumeUpload"
  /\ res' = [res EXCEPT ![r] = Append(@, uploadRespond(settled[r][1]))]
  /\ jobs' = Tail(jobs)
  /\ pc' = [pc EXCEPT ![r] = "done"]
  /\ UNCHANGED <<variant, req, frame, calls, settled, returned>>

\* Requests handled concurrently by the current server.
Next ==
  \E r \in Requests :
    \/ \E body \in Bodies : SimplifyRequest(r, body)
    \/ \E resp \in Completions : LLMResolves(r, resp)
    \/ LLMRejects(r)
    \/ ResumeCallLLMSimplify(r)
    \/ ResumeSimplify(r)
    \/ \E file \in Files : UploadRequest(r, file)
    \/ \E data \in PdfData : PdfResolves(r, data)
    \/ PdfRejects(r)
    \/ ResumeUpload(r)

Spec == Init /\ [][Next]_vars

\* One request, of every class of input, to either variant of the server.
NextRequest ==
  \/ \E body \in BodiesWide : SimplifyRequest(1, body)
  \/ \E resp \in CompletionsWide : LLMResolves(1, resp)
  \/ LLMRejects(1)
  \/ ResumeCallLLMSimplify(1)
  \/ ResumeSimplify(1)
  \/ \E file \in FilesWide : UploadRequest(1, file)
  \/ \E data \in PdfDataWide : PdfResolves(1, data)
  \/ PdfRejects(1)
  \/ ResumeUpload(1)

SpecRequest == InitAny /\ [][NextRequest]_vars

\* The same, to the current server only.
SpecCurrent == Init /\ [][NextRequest]_vars

(******************************* claims ************************************)
SimplifyRequests == {r \in Requests : req[r].route = "/api/simplify"}
UploadRequests == {r \in Requests : req[r].route = "/api/upload"}

\* the `report` of a request body, Undefined when the body has none
reportOf(body) == IF body[1] = "object" THEN Get(body, "report") ELSE Undefined

\* a report that is missing, empty, or white space only
Blank(report) ==
  \/ report[1] = "undefined"
  \/ report[1] = "string" /\ \A i \in 1..Len(report[2]) : report[2][i] \in WhiteSpace

\* C1: a simplify request whose report is missing, empty or white space only
\* is answered 400 { error: "report text required" }, and the text-generation
\* service is never invoked for it.
C1_BlankReportRejected ==
  \A r \in SimplifyRequests :
    Blank(reportOf(req[r].body)) =>
      /\ pc[r] = "done"
      /\ res[r] = << [status |-> 400, json |-> [error |-> "report text required"]] >>
      /\ calls[r] = <<>>

\* a report of white space only was received and rejected
C1_Witness ==
  \E r \in SimplifyRequests :
    /\ reportOf(req[r].body)[1] = "string"
    /\ Len(reportOf(req[r].body)[2]) > 0
    /\ Blank(reportOf(req[r].body))
    /\ pc[r] = "done"
    /\ res[r][1].status = 400

\* the user message of request r's call i of the text-generation service
userContent(r, i) == calls[r][i].args.messages[2].content

\* the text callLLMSimplify receives: String(report).trim()
cleanOf(body) == trim(String(reportOf(body)))

\* C2: the report text embedded in the messages sent to the text-generation
\* service is the text itself when it has at most MAX_INPUT_CHARS characters,
\* and else its first MAX_INPUT_CHARS characters followed by "\n\n[TRUNCATED]".
C2_SentTextIsTruncated ==
  \A r \in SimplifyRequests :
    \A i \in 1..Len(calls[r]) :
      LET body == Or(req[r].body, EmptyObject)
          text == cleanOf(body)
          sent == IF Len(text) > MAX_INPUT_CHARS
                  THEN SubSeq(text, 1, MAX_INPUT_CHARS) \o TRUNCATED
                  ELSE text
      IN userContent(r, i) =
           user(variant, sent, Default(Get(body, "targetLang"), Str(S_en)),
                Default(Get(body, "tone"), Str(S_friendly)))

\* C3: when the call of the text-generation service fails, a valid simplify
\* request is still answered 200, with a non-empty degraded `simplified`, an
\* empty `short_summary` and the two default cards (doctor-patient, heart);
\* the failure never surfaces as a 500.  The current copy does so; the
\* earlier copy awaits the service outside any try and answers the 500.
C3_FailureIsDegraded200 ==
  \A r \in SimplifyRequests :
    (settled[r] = <<Rejected>> /\ pc[r] = "done") =>
      /\ Len(res[r]) = 1
      /\ res[r][1].status = 200
      /\ res[r][1].json.simplified[1] = "string"
      /\ Len(res[r][1].json.simplified[2]) > 0
      /\ res[r][1].json.short_summary = Str(<<>>)
      /\ Len(res[r][1].json.visual_cards) = 2
      /\ res[r][1].json.visual_cards[1].keyword = Str(K_doctor_patient)
      /\ res[r][1].json.visual_cards[1].image_hint = Str(HINT_doctor_patient)
      /\ res[r][1].json.visual_cards[2].keyword = Str(K_heart)
      /\ res[r][1].json.visual_cards[2].image_hint = Str(HINT_heart)

\* the 200 responses of /api/simplify
Simplified == {r \in SimplifyRequests : Len(res[r]) > 0 /\ res[r][1].status = 200}

\* C4: in every 200 response of /api/simplify, whatever the text-generation
\* service returned, `visual_cards` has between 1 and 4 cards.
C4_OneToFourCards ==
  \A r \in Simplified :
    /\ Len(res[r][1].json.visual_cards) >= 1
    /\ Len(res[r][1].json.visual_cards) <= 4

\* the reply carried five keywords and the response four cards
C4_Witness ==
  \E r \in Simplified :
    /\ \E x \in JSONValues :
         /\ x[1] = "object"
         /\ Get(x, "visual_keywords")[1] = "array"
         /\ Len(Get(x, "visual_keywords")[2]) > 4
         /\ settled[r] = <<Resolved(Completion(Str(JSONText(x))))>>
    /\ variant = "earlier"
    /\ Len(res[r][1].json.visual_cards) = 4

\* image_hint is the templated link with the URL-encoded keyword
Templated(c) ==
  c.image_hint = Str(IMAGE_HINT_PREFIX \o encodeURIComponent(String(c.keyword)))

\* C5 as claimed: for every card of every /api/simplify response, the default
\* cards included, `image_hint` is the templated image-search URL that
\* contains the URL-encoded form of that card's `keyword`.
C5_EveryHintTemplated ==
  \A r \in Simplified :
    \A i \in 1..Len(res[r][1].json.visual_cards) :
      Templated(res[r][1].json.visual_cards[i])

\* C5 as amended: every card made from a keyword of the result, and the
\* default heart card, has the templated link with the URL-encoded keyword;
\* the default doctor-patient card has the fixed link ...?doctor,patient.
C5_HintTemplatedButDefault ==
  \A r \in Simplified :
    LET cards == res[r][1].json.visual_cards
    IN \/ \A i \in 1..Len(cards) : Templated(cards[i])
       \/ /\ Len(cards) = 2
          /\ cards[1] = [keyword |-> Str(K_doctor_patient),
                         image_hint |-> Str(HINT_doctor_patient)]
          /\ cards[2] = [keyword |-> Str(K_heart), image_hint |-> Str(HINT_heart)]
          /\ Templated(cards[2])

\* a response carries the card of a keyword that encoding changes
C5_Witness ==
  \E r \in Simplified :
    \E i \in 1..Len(res[r][1].json.visual_cards) :
      LET c == res[r][1].json.visual_cards[i]
      IN /\ c.keyword[1] = "string"
         /\ encodeURIComponent(c.keyword[2]) # c.keyword[2]
         /\ Templated(c)

\* the file of an upload request (Undefined when the form had none)
fileOf(r) == req[r].file

Recognized == {Str(M_text_plain), Str(M_application_pdf)}

\* C6 as claimed: an upload whose declared media type is neither text/plain
\* nor application/pdf, whatever its filename, is answered 400 "Unsupported
\* file type..." with neither the PDF parser nor the text decoder invoked.
C6_UnrecognizedTypeRejected ==
  \A r \in UploadRequests :
    (Truthy(fileOf(r)) /\ Get(fileOf(r), "mimetype") \notin Recognized) =>
      /\ pc[r] = "done"
      /\ res[r] = << [status |-> 400,
                      json |-> [error |-> "Unsupported file type. Use .txt or .pdf"]] >>
      /\ calls[r] = <<>>

\* the filename ends with .txt or .pdf
KnownExtension(name) ==
  \E n \in 0..Len(name) :
    SubSeq(name, n + 1, Len(name)) \in {<<".", "t", "x", "t">>, <<".", "p", "d", "f">>}

\* C6 as amended: an upload whose declared media type is neither text/plain
\* nor application/pdf and whose filename ends with neither .txt nor .pdf is
\* answered 400 "Unsupported file type..." with no parser or decoder invoked.
C6_UnrecognizedTypeAndNameRejected ==
  \A r \in UploadRequests :
    (/\ Truthy(fileOf(r))
     /\ Get(fileOf(r), "mimetype") \notin Recognized
     /\ ~KnownExtension(Get(fileOf(r), "originalname")[2])) =>
      /\ pc[r] = "done"
      /\ res[r] = << [status |-> 400,
                      json |-> [error |-> "Unsupported file type. Use .txt or .pdf"]] >>
      /\ calls[r] = <<>>

\* a file of unrecognized type and extension was uploaded and rejected
C6_Witness ==
  \E r \in UploadRequests :
    /\ Truthy(fileOf(r))
    /\ Get(fileOf(r), "mimetype") \notin Recognized
    /\ ~KnownExtension(Get(fileOf(r), "originalname")[2])
    /\ pc[r] = "done"
    /\ res[r][1].status = 400

\* the uploads handed to the PDF parser
ParsedAsPdf == {r \in UploadRequests : calls[r] # <<>> /\ calls[r][1].service = "pdf"}

\* C7: an upload handled as a PDF whose parse fails is answered 500 "Failed
\* to parse uploaded file", never 200 with a `text` body.
C7_FailedParseIs500 ==
  \A r \in ParsedAsPdf :
    settled[r] = <<Rejected>> =>
      IF pc[r] = "done"
      THEN res[r] = << [status |-> 500, json |-> [error |-> "Failed to parse uploaded file"]] >>
      ELSE res[r] = <<>>

\* the parse of a PDF upload failed and the upload was answered
C7_Witness ==
  \E r \in ParsedAsPdf :
    /\ settled[r] = <<Rejected>>
    /\ pc[r] = "done"
    /\ Len(res[r]) = 1

\* the calls of the text-generation service made for request r
LLMCalls(r) ==
  {i \in 1..Len(calls[r]) : calls[r][i].service = "openai.chat.completions.create"}

\* C8: within one /api/simplify request the text-generation service is
\* invoked at most once, also after a failed call, and the one response is
\* sent only once that call has settled: nothing is sent while it is awaited.
C8_OneCallThenOneResponse ==
  \A r \in SimplifyRequests :
    /\ Cardinality(LLMCalls(r)) <= 1
    /\ Len(res[r]) <= 1
    /\ pc[r] = "awaitLLM" => settled[r] = <<>>
    /\ pc[r] \in {"awaitLLM", "resumeLLM", "resumeSimplify"} => res[r] = <<>>
    /\ (LLMCalls(r) # {} /\ res[r] # <<>>) => Len(settled[r]) = 1

\* the one call failed, the response was sent, and no second call was made
C8_Witness ==
  \E r \in SimplifyRequests :
    /\ settled[r] = <<Rejected>>
    /\ Cardinality(LLMCalls(r)) = 1
    /\ Len(res[r]) = 1
    /\ pc[r] = "done"

\* What request r's handler has done and holds, at each point it passes
\* through, when it is the only request the server ever received: a function
\* of r's own request and of how r's own awaited call settled.
Alone(v, request, outcomes) ==
  LET at(p, c, f, t, s) == [pc |-> p, calls |-> c, frame |-> f, returned |-> t, res |-> s]
  IN IF request.route = "/api/simplify"
     THEN LET e == simplifyEntry(v, request.body)
          IN IF e.kind = "respond"
             THEN {at("done", <<>>, <<>>, <<>>, <<e.response>>)}
             ELSE IF e.kind = "rejected"
             THEN {at("resumeSimplify", <<>>, <<>>, <<e.completion>>, <<>>),
                   at("done", <<>>, <<>>, <<e.completion>>, <<simplifyRespond(e.completion)>>)}
             ELSE IF outcomes = <<>>
             THEN {at("awaitLLM", <<e.call>>, <<e.frame>>, <<>>, <<>>)}
             ELSE LET back == callLLMSimplify(v, outcomes[1])
                  IN {at("resumeLLM", <<e.call>>, <<e.frame>>, <<>>, <<>>),
                      at("resumeSimplify", <<e.call>>, <<>>, <<back>>, <<>>),
                      at("done", <<e.call>>, <<>>, <<back>>, <<simplifyRespond(back)>>)}
     ELSE IF request.route = "/api/upload"
     THEN LET e == uploadEntry(request.file)
          IN IF e.kind = "respond"
             THEN {at("done", e.calls, <<>>, <<>>, <<e.response>>)}
             ELSE IF outcomes = <<>>
             THEN {at("awaitPDF", <<e.call>>, <<>>, <<>>, <<>>)}
             ELSE {at("resumeUpload", <<e.call>>, <<>>, <<>>, <<>>),
                   at("done", <<e.call>>, <<>>, <<>>, <<uploadRespond(outcomes[1])>>)}
     ELSE {at("idle", <<>>, <<>>, <<>>, <<>>)}

\* C9: under any interleaving of concurrently handled requests, each
\* request's calls, suspended text, result and response are those of its own
\* request and of the outcome of its own external call; no other request
\* shows in them or alters them.
C9_RequestsIsolated ==
  \A r \in Requests :
    [pc |-> pc[r], calls |-> calls[r], frame |-> frame[r], returned |-> returned[r],
     res |-> res[r]] \in Alone(variant, req[r], settled[r])

\* two different requests were suspended together; the jobs of both were
\* queued together, and one has since been answered while the other's
\* handler still waits for its turn
C9_Witness ==
  \E r, q \in Requests :
    /\ r # q
    /\ req[r].route = "/api/simplify" /\ req[q].route = "/api/simplify"
    /\ req[r].body # req[q].body
    /\ pc[r] = "done" /\ Len(settled[r]) = 1
    /\ pc[q] = "resumeSimplify"
    /\ jobs = <<q>>

\* the reply text of a completion: its trimmed content, or "" when it has none
replyOf(resp) ==
  IF content(resp)[1] = "string" THEN trim(content(resp)[2]) ELSE <<>>

\* the first three lines of a text joined by single spaces
ThreeLines(raw) ==
  LET lines == split(raw, "\n")
  IN IF Len(lines) = 1 THEN lines[1]
     ELSE IF Len(lines) = 2 THEN lines[1] \o <<" ">> \o lines[2]
     ELSE lines[1] \o <<" ">> \o lines[2] \o <<" ">> \o lines[3]

\* C10: when the call of the text-generation service succeeds, the response
\* has the four cards healthy, blood, heart, fitness in that order whatever
\* the reply says, `simplified` is the trimmed reply, and `short_summary` is
\* the first three lines of that reply joined by single spaces.
C10_StaticKeywordsOnSuccess ==
  \A r \in SimplifyRequests :
    (/\ pc[r] = "done"
     /\ Len(settled[r]) = 1
     /\ settled[r][1].kind = "resolved"
     /\ content(settled[r][1].value)[1] \in {"string", "undefined", "null"}) =>
      LET raw == replyOf(settled[r][1].value)
          cards == res[r][1].json.visual_cards
      IN /\ res[r][1].status = 200
         /\ res[r][1].json.simplified = Str(raw)
         /\ res[r][1].json.short_summary = Str(ThreeLines(raw))
         /\ [i \in 1..Len(cards) |-> cards[i].keyword]
              = <<Str(K_healthy), Str(K_blood), Str(K_heart), Str(K_fitness)>>

\* a reply of more than three lines that lists keywords of its own was answered
C10_Witness ==
  \E r \in SimplifyRequests :
    /\ Len(settled[r]) = 1
    /\ settled[r][1].kind = "resolved"
    /\ content(settled[r][1].value)[1] = "string"
    /\ Len(split(replyOf(settled[r][1].value), "\n")) > 3
    /\ indexOf(content(settled[r][1].value)[2], "[", 1) > 0
    /\ pc[r] = "done"
    /\ Len(res[r][1].json.visual_cards) = 4

====
